---- MODULE Spec2Model ----
(***************************************************************************)
(* dz_phonenumber: the Algerian phone number parser and validator.         *)
(*                                                                         *)
(* A Python str is a sequence of one-character strings, None is the empty  *)
(* tuple and a present optional value x is the one-element tuple <<x>>.    *)
(* A GeoCoder's float coordinates are integers in units of 1/10000 degree. *)
(* The characters of the inputs are the ASCII digits, '+' and '-' ('-'     *)
(* stands for every character the normalisation removes).                  *)
(***************************************************************************)
EXTENDS Integers, Sequences, FiniteSets, TLC

VARIABLES dataset, objs, out

vars == <<dataset, objs, out>>

(* ---------------------------- Python values ---------------------------- *)

None == <<>>

Some(x) == <<x>>

\* x in tup, for a tuple literal
In(x, tup) == \E i \in DOMAIN tup : tup[i] = x

\* s.startswith(p)
startswith(s, p) == Len(s) >= Len(p) /\ SubSeq(s, 1, Len(p)) = p

\* s[k:]
DropFirst(s, k) == SubSeq(s, k + 1, Len(s))

\* one key: value entry of a dict literal
Item(k, v) == [key |-> k, value |-> v]

\* the dict a literal builds: a repeated key keeps the value written last
DictOf(items) ==
    [k \in {items[i].key : i \in DOMAIN items} |->
        items[CHOOSE i \in DOMAIN items :
                 /\ items[i].key = k
                 /\ \A j \in DOMAIN items : items[j].key = k => j <= i].value]

\* the character class \d of the pattern, over the characters of the inputs
DecimalDigits == {"0", "1", "2", "3", "4", "5", "6", "7", "8", "9"}

(* ------------------------------- GeoCoder ------------------------------ *)

GeoCoder(name, longitude, latitude, altitude) ==
    [name |-> name, longitude |-> longitude, latitude |-> latitude,
     altitude |-> altitude, timezone |-> "Africa/Algiers"]

(* -------------------------------- _Const ------------------------------- *)

COUNTRY_CODE == <<"+", "2", "1", "3">>

INTERNATIONAL_PREFIX == <<"0", "0">>

NATIONAL_PREFIX == <<"0">>

LANDLINE_PATTERNS == <<"2", "3", "4">>

MOBILE_PATTERNS == <<"5", "6", "7">>

SPECIAL_PATTERNS == <<"8", "9">>

MOBILE_CARRIERS ==
    DictOf(<<Item("5", "Ooredoo"), Item("6", "Mobilis"), Item("7", "Djezzy")>>)

NUMBER_LENGTHS ==
    [mobile |-> 9, landline |-> 8, voip |-> 8, vsat |-> 8, short_code |-> 4,
     emergency |-> <<2, 3, 4>>]

LANDLINE_REGIONS == DictOf(<<
    Item(<<"4","9">>, GeoCoder("Adrar", -2936, 278743, 258)),
    Item(<<"2","7">>, GeoCoder("Ain Defla", 19594, 362509, 190)),
    Item(<<"4","3">>, GeoCoder("Ain Temouchent", -11400, 352970, 120)),
    Item(<<"2","1">>, GeoCoder("Algiers", 30588, 367538, 10)),
    Item(<<"3","8">>, GeoCoder("Annaba", 77667, 369000, 3)),
    Item(<<"3","3">>, GeoCoder("Batna", 61697, 355559, 1048)),
    Item(<<"3","4">>, GeoCoder("Bejaia", 50667, 367500, 2)),
    Item(<<"2","5">>, GeoCoder("Blida", 28276, 364700, 260)),
    Item(<<"3","5">>, GeoCoder("Bordj Bou Arreridj", 47611, 360736, 928)),
    Item(<<"2","6">>, GeoCoder("Bouira", 39000, 363667, 519)),
    Item(<<"2","4">>, GeoCoder("Boumerdes", 34772, 367664, 10)),
    Item(<<"2","7">>, GeoCoder("Chlef", 13319, 361654, 114)),
    Item(<<"3","1">>, GeoCoder("Constantine", 66147, 363650, 694)),
    Item(<<"2","7">>, GeoCoder("Djelfa", 32500, 346667, 1143)),
    Item(<<"3","2">>, GeoCoder("El Oued", 68639, 333683, 76)),
    Item(<<"2","9">>, GeoCoder("Ghardaia", 36736, 324839, 572)),
    Item(<<"3","7">>, GeoCoder("Guelma", 74264, 364614, 290)),
    Item(<<"2","9">>, GeoCoder("Illizi", 84667, 264833, 558)),
    Item(<<"3","4">>, GeoCoder("Jijel", 57667, 368167, 10)),
    Item(<<"3","2">>, GeoCoder("Khenchela", 71464, 354269, 1122)),
    Item(<<"2","9">>, GeoCoder("Laghouat", 28667, 338000, 769)),
    Item(<<"3","5">>, GeoCoder("M'sila", 45333, 357000, 471)),
    Item(<<"4","5">>, GeoCoder("Mascara", 1408, 354000, 570)),
    Item(<<"2","5">>, GeoCoder("Medea", 27583, 362675, 920)),
    Item(<<"3","1">>, GeoCoder("Mila", 62647, 364503, 470)),
    Item(<<"4","5">>, GeoCoder("Mostaganem", 892, 359333, 104)),
    Item(<<"4","1">>, GeoCoder("Oran", -6333, 356911, 101)),
    Item(<<"2","9">>, GeoCoder("Ouargla", 53333, 319500, 141)),
    Item(<<"3","2">>, GeoCoder("Oum El Bouaghi", 71136, 358778, 902)),
    Item(<<"4","6">>, GeoCoder("Relizane", 5558, 357372, 98)),
    Item(<<"4","8">>, GeoCoder("Saida", 48306, 348303, 870)),
    Item(<<"3","6">>, GeoCoder("Setif", 54089, 361919, 1096)),
    Item(<<"4","8">>, GeoCoder("Sidi Bel Abbes", -6333, 352000, 470)),
    Item(<<"3","8">>, GeoCoder("Skikda", 69094, 368667, 18)),
    Item(<<"3","7">>, GeoCoder("Souk Ahras", 79514, 362864, 699)),
    Item(<<"2","9">>, GeoCoder("Tamanrasset", 55167, 227850, 1320)),
    Item(<<"3","7">>, GeoCoder("Tebessa", 81206, 354072, 858)),
    Item(<<"4","6">>, GeoCoder("Tiaret", 13167, 353667, 1032)),
    Item(<<"4","3">>, GeoCoder("Tlemcen", -13139, 348828, 842)),
    Item(<<"2","4">>, GeoCoder("Tipaza", 24500, 365833, 120)),
    Item(<<"4","6">>, GeoCoder("Tissemsilt", 18000, 356000, 850)),
    Item(<<"2","6">>, GeoCoder("Tizi Ouzou", 40500, 367167, 200))
    >>)

EMERGENCY_NUMBERS == DictOf(<<
    Item(<<"1","5","4","8">>, "Police Nationale"),
    Item(<<"1","7">>, "Police (Short Code)"),
    Item(<<"1","0","5","5">>, "Gendarmerie Nationale"),
    Item(<<"1","0","5","4">>, "Coast Guard"),
    Item(<<"1","4">>, "Protection Civile"),
    Item(<<"1","0","2","1">>, "Civil Protection"),
    Item(<<"1","0","4","0">>, "SAMU (Emergency Medical)"),
    Item(<<"1","2","3","4">>, "Electricity Emergency"),
    Item(<<"1","2","3","5">>, "Gas Emergency")
    >>)

SPECIAL_NUMBERS == DictOf(<<
    Item(<<"9","8">>, "VOIP"),
    Item(<<"9","6">>, "VSAT"),
    Item(<<"9","7">>, "IoT/M2M Services")
    >>)

\* the class attributes of _Const, as the module holds them
_Const ==
    [COUNTRY_CODE |-> COUNTRY_CODE,
     INTERNATIONAL_PREFIX |-> INTERNATIONAL_PREFIX,
     NATIONAL_PREFIX |-> NATIONAL_PREFIX,
     LANDLINE_PATTERNS |-> LANDLINE_PATTERNS,
     MOBILE_PATTERNS |-> MOBILE_PATTERNS,
     SPECIAL_PATTERNS |-> SPECIAL_PATTERNS,
     MOBILE_CARRIERS |-> MOBILE_CARRIERS,
     NUMBER_LENGTHS |-> NUMBER_LENGTHS,
     LANDLINE_REGIONS |-> LANDLINE_REGIONS,
     EMERGENCY_NUMBERS |-> EMERGENCY_NUMBERS,
     SPECIAL_NUMBERS |-> SPECIAL_NUMBERS]

(* ------------------------------ PhoneNumber ---------------------------- *)

\* an exception leaving a method: the object keeps what was assigned so far
Raise(self, exc) == [self EXCEPT !.raised = Some(exc)]

\* re.sub(r'[^\d+]', '', number): every character that is neither a digit
\* nor '+' is removed, wherever it stands
_normalize_number(number) ==
    LET kept(ch) == ch \in DecimalDigits \/ ch = "+"
    IN  SelectSeq(number, kept)

\* the international format check of _parse_number
StripCountry(num) ==
    IF startswith(num, <<"2", "1", "3">>) THEN DropFirst(num, 3)
    ELSE IF startswith(num, <<"+", "2", "1", "3">>) THEN DropFirst(num, 4)
    ELSE num

\* the national prefix check of _parse_number
StripNational(num) ==
    IF startswith(num, <<"0">>) THEN DropFirst(num, 1) ELSE num

\* num as _parse_number has it when it determines the number type
Stripped(clean_number) == StripNational(StripCountry(clean_number))

\* the emergency test matching a key at the start of num instead of all of it
IsEmergencyKeyPrefix(c, num) ==
    /\ In(Len(num), <<2, 3, 4>>)
    /\ \E k \in DOMAIN c.EMERGENCY_NUMBERS : startswith(num, k)

\* the emergency test of _parse_number
IsEmergencyKey(c, num) ==
    /\ In(Len(num), <<2, 3, 4>>)
    /\ num \in DOMAIN c.EMERGENCY_NUMBERS

\* _parse_mobile looking the carrier up by num[:2] instead of num[0]
_parse_mobile_wrong_key(c, self, num) ==
    IF Len(num) = 0 THEN Raise(self, "IndexError")
    ELSE IF In(num[1], c.MOBILE_PATTERNS)
         THEN [self EXCEPT
                  !.number_type = Some("mobile"),
                  !.carrier = Some("Unknown"),
                  !.is_valid = TRUE]
         ELSE self

_parse_mobile(c, self, num) ==
    IF Len(num) = 0 THEN Raise(self, "IndexError")
    ELSE IF In(num[1], c.MOBILE_PATTERNS)
         THEN [self EXCEPT
                  !.number_type = Some("mobile"),
                  !.carrier = Some(IF num[1] \in DOMAIN c.MOBILE_CARRIERS
                                   THEN c.MOBILE_CARRIERS[num[1]]
                                   ELSE "Unknown"),
                  !.is_valid = TRUE]
         ELSE self

\* _parse_landline setting is_valid outside the area code test
_parse_landline_valid_early(c, self, num) ==
    IF Len(num) = 0 THEN Raise(self, "IndexError")
    ELSE IF In(num[1], c.LANDLINE_PATTERNS)
         THEN LET area_code == SubSeq(num, 1, IF Len(num) < 2 THEN Len(num) ELSE 2)
              IN  IF area_code \in DOMAIN c.LANDLINE_REGIONS
                  THEN [self EXCEPT
                           !.number_type = Some("landline"),
                           !.area_code = Some(area_code),
                           !.location = Some(c.LANDLINE_REGIONS[area_code]),
                           !.is_valid = TRUE]
                  ELSE [self EXCEPT !.is_valid = TRUE]
         ELSE self

_parse_landline(c, self, num) ==
    IF Len(num) = 0 THEN Raise(self, "IndexError")
    ELSE IF In(num[1], c.LANDLINE_PATTERNS)
         THEN LET area_code == SubSeq(num, 1, IF Len(num) < 2 THEN Len(num) ELSE 2)
              IN  IF area_code \in DOMAIN c.LANDLINE_REGIONS
                  THEN [self EXCEPT
                           !.number_type = Some("landline"),
                           !.area_code = Some(area_code),
                           !.location = Some(c.LANDLINE_REGIONS[area_code]),
                           !.is_valid = TRUE]
                  ELSE self
         ELSE self

\* _parse_number taking every num of at most the mobile length for a mobile
_parse_number_short_mobile(c, self) ==
    LET num == Stripped(self.clean_number)
    IN  IF IsEmergencyKey(c, num)
        THEN [self EXCEPT !.number_type = Some("emergency"), !.is_valid = TRUE]
        ELSE IF Len(num) = c.NUMBER_LENGTHS.landline
        THEN _parse_landline(c, self, num)
        ELSE IF Len(num) <= c.NUMBER_LENGTHS.mobile
        THEN _parse_mobile(c, self, num)
        ELSE [self EXCEPT !.is_valid = FALSE]

_parse_number(c, self) ==
    LET num == Stripped(self.clean_number)
    IN  IF IsEmergencyKey(c, num)
        THEN [self EXCEPT !.number_type = Some("emergency"), !.is_valid = TRUE]
        ELSE IF Len(num) = c.NUMBER_LENGTHS.mobile
        THEN _parse_mobile(c, self, num)
        ELSE IF Len(num) = c.NUMBER_LENGTHS.landline
        THEN _parse_landline(c, self, num)
        ELSE IF Len(num) = c.NUMBER_LENGTHS.voip /\ startswith(num, <<"9", "8">>)
        THEN [self EXCEPT !.number_type = Some("voip"), !.is_valid = TRUE]
        ELSE IF Len(num) = c.NUMBER_LENGTHS.vsat /\ startswith(num, <<"9", "6">>)
        THEN [self EXCEPT !.number_type = Some("vsat"), !.is_valid = TRUE]
        ELSE [self EXCEPT !.is_valid = FALSE]

\* __init__ starting the carrier at 'Unknown' instead of None
__init___carrier_unknown(c, number) ==
    _parse_number(c,
        [original_number |-> number,
         clean_number |-> _normalize_number(number),
         number_type |-> None,
         area_code |-> None,
         carrier |-> Some("Unknown"),
         location |-> None,
         is_valid |-> FALSE,
         raised |-> None])

\* PhoneNumber(number): the object __init__ leaves behind
__init__(c, number) ==
    _parse_number(c,
        [original_number |-> number,
         clean_number |-> _normalize_number(number),
         number_type |-> None,
         area_code |-> None,
         carrier |-> None,
         location |-> None,
         is_valid |-> FALSE,
         raised |-> None])

is_mobile(self) == self.number_type = Some("mobile")

is_landline(self) == self.number_type = Some("landline")

is_emergency(self) == self.number_type = Some("emergency")

is_voip(self) == self.number_type = Some("voip")

is_vsat(self) == self.number_type = Some("vsat")

\* the dict get_all_info returns
get_all_info(self) ==
    [original_number |-> self.original_number,
     clean_number |-> self.clean_number,
     type |-> self.number_type,
     valid |-> self.is_valid,
     carrier |-> self.carrier,
     area_code |-> self.area_code,
     location |-> IF self.location # None THEN Some(self.location[1].name) ELSE None,
     coordinates |-> IF self.location # None
                     THEN Some(<<self.location[1].longitude, self.location[1].latitude>>)
                     ELSE None,
     timezone |-> IF self.location # None THEN Some(self.location[1].timezone) ELSE None]

\* str.upper() on the number types
upper(s) ==
    CASE s = "mobile" -> "MOBILE"
      [] s = "landline" -> "LANDLINE"
      [] s = "emergency" -> "EMERGENCY"
      [] s = "voip" -> "VOIP"
      [] s = "vsat" -> "VSAT"
      [] OTHER -> s

\* __str__: the lines that "\n".join(parts) joins, each a label and the
\* value formatted after it; an AttributeError when info['type'] is None
__str__(self) ==
    IF ~self.is_valid
    THEN [raised |-> None,
          parts |-> <<<<"Invalid Algerian phone number: ", self.original_number>> >>]
    ELSE LET info == get_all_info(self)
         IN  IF info.type = None
             THEN [raised |-> Some("AttributeError"), parts |-> <<>>]
             ELSE [raised |-> None,
                   parts |->
                      <<<<"Algerian Phone Number: ", self.clean_number>>,
                        <<"Type: ", upper(info.type[1])>> >>
                      \o (IF self.carrier # None
                          THEN <<<<"Carrier: ", self.carrier[1]>> >> ELSE <<>>)
                      \o (IF self.area_code # None
                          THEN <<<<"Area Code: ", self.area_code[1]>> >> ELSE <<>>)
                      \o (IF self.location # None
                          THEN <<<<"Location: ", info.location[1]>>,
                                 <<"Coordinates: ", info.coordinates[1]>> >>
                          ELSE <<>>)]

(* ------------------------------- the inputs ---------------------------- *)

MaxHead == 3

MaxTail == 6

MaxCalls == 2

Alphabet == DecimalDigits \cup {"+", "-"}

\* every string over the alphabet of at most MaxHead characters
Heads == UNION {[1..k -> Alphabet] : k \in 0..MaxHead}

Filler == <<"1", "2", "3", "4", "5", "6", "7", "8", "9">>

\* the first k subscriber digits 1234...
Subscriber(k) == [i \in 1..k |-> Filler[((i - 1) % Len(Filler)) + 1]]

Tails == {Subscriber(k) : k \in 0..MaxTail}

\* how a caller may write the country and trunk prefixes
Prefixes ==
    {<<>>, NATIONAL_PREFIX, <<"2", "1", "3">>, COUNTRY_CODE,
     INTERNATIONAL_PREFIX \o <<"2", "1", "3">>}

Inputs == {p \o h \o t : p \in Prefixes, h \in Heads, t \in Tails}

\* a few numbers of each kind, for sequences of calls
SeqInputs ==
    {p \o b : p \in {<<>>, NATIONAL_PREFIX, COUNTRY_CODE},
              b \in {<<"5", "5", "9">> \o Subscriber(6), <<"2", "1">> \o Subscriber(6),
                     <<"1", "7">>, <<"-">>}}

(* ------------------------------ the callers ---------------------------- *)

Init ==
    /\ dataset = _Const
    /\ objs = <<>>
    /\ out = None

\* obj = PhoneNumber(number)
Construct(number) ==
    /\ objs' = Append(objs, __init__(dataset, number))
    /\ UNCHANGED <<dataset, out>>

Returned(i, op, value) == out' = Some([op |-> op, of |-> i, value |-> value])

IsMobile(i) ==
    /\ Returned(i, "is_mobile", is_mobile(objs[i]))
    /\ UNCHANGED <<dataset, objs>>

IsLandline(i) ==
    /\ Returned(i, "is_landline", is_landline(objs[i]))
    /\ UNCHANGED <<dataset, objs>>

IsEmergency(i) ==
    /\ Returned(i, "is_emergency", is_emergency(objs[i]))
    /\ UNCHANGED <<dataset, objs>>

IsVoip(i) ==
    /\ Returned(i, "is_voip", is_voip(objs[i]))
    /\ UNCHANGED <<dataset, objs>>

IsVsat(i) ==
    /\ Returned(i, "is_vsat", is_vsat(objs[i]))
    /\ UNCHANGED <<dataset, objs>>

\* get_all_info replacing self.location by the name it reports
GetAllInfoFlattening(i) ==
    /\ Returned(i, "get_all_info", get_all_info(objs[i]))
    /\ objs' = [objs EXCEPT ![i].location =
                   IF objs[i].location # None
                   THEN Some([name |-> objs[i].location[1].name])
                   ELSE None]
    /\ UNCHANGED dataset

GetAllInfo(i) ==
    /\ Returned(i, "get_all_info", get_all_info(objs[i]))
    /\ UNCHANGED <<dataset, objs>>

Str(i) ==
    /\ Returned(i, "__str__", __str__(objs[i]))
    /\ UNCHANGED <<dataset, objs>>

\* the objects a caller holds: the constructor returned them
Held == {i \in DOMAIN objs : objs[i].raised = None}

\* one classification of any input
Next ==
    /\ Len(objs) < 1
    /\ \E number \in Inputs : Construct(number)

Spec == Init /\ [][Next]_vars

\* any sequence of classifications and queries
NextSeq ==
    \/ /\ Len(objs) < MaxCalls
       /\ \E number \in SeqInputs : Construct(number)
    \/ \E i \in Held : IsMobile(i)
    \/ \E i \in Held : IsLandline(i)
    \/ \E i \in Held : IsEmergency(i)
    \/ \E i \in Held : IsVoip(i)
    \/ \E i \in Held : IsVsat(i)
    \/ \E i \in Held : GetAllInfo(i)
    \/ \E i \in Held : Str(i)

SpecSeq == Init /\ [][NextSeq]_vars

(* ------------------------------ properties ----------------------------- *)

AllDigits(s) == \A k \in DOMAIN s : s[k] \in DecimalDigits

\* a string of exactly n decimal digits
DigitString(s, n) == Len(s) = n /\ AllDigits(s)

SameCategoryAndCarrier(a, b) ==
    a.number_type = b.number_type /\ a.carrier = b.carrier

\* C1: for every 9-digit national-significant number n (the trunk prefix is
\* not part of it, so it does not start with 0), the numbers written
\* "+213" n, "00213" n and "0" n get the same category and the same carrier.
C1_PrefixEquivalence ==
    \A i \in DOMAIN objs :
        LET o == objs[i]
            n == DropFirst(o.original_number, 4)
        IN  (/\ startswith(o.original_number, <<"+", "2", "1", "3">>)
             /\ DigitString(n, 9)
             /\ n[1] # "0")
            => /\ SameCategoryAndCarrier(o,
                     __init__(dataset, <<"0", "0", "2", "1", "3">> \o n))
               /\ SameCategoryAndCarrier(o, __init__(dataset, <<"0">> \o n))

\* C2: every 8-digit string whose first digit is 2, 3 or 4 and whose first
\* two digits are an area code of the region table (213xxxxx included) is a
\* valid landline with that area code and the table's region for it.
C2_LandlineKnownArea ==
    \A i \in DOMAIN objs :
        LET o == objs[i]
            s == o.original_number
        IN  (/\ DigitString(s, 8)
             /\ s[1] \in {"2", "3", "4"}
             /\ SubSeq(s, 1, 2) \in DOMAIN LANDLINE_REGIONS)
            => /\ o.is_valid
               /\ o.number_type = Some("landline")
               /\ o.area_code = Some(SubSeq(s, 1, 2))
               /\ o.location # None
               /\ o.location[1].name = LANDLINE_REGIONS[SubSeq(s, 1, 2)].name

\* C3: every input whose national-significant number has exactly 8 digits
\* and starts with 98 is valid with category voip.
C3_Voip ==
    \A i \in DOMAIN objs :
        LET o == objs[i]
            num == Stripped(o.clean_number)
        IN  (DigitString(num, 8) /\ startswith(num, <<"9", "8">>))
            => o.is_valid /\ o.number_type = Some("voip")

\* C4: every 9-digit string whose first digit is 5, 6 or 7 is a valid mobile
\* number whose carrier is 5 -> Ooredoo, 6 -> Mobilis, 7 -> Djezzy.
C4_MobileCarrier ==
    \A i \in DOMAIN objs :
        LET o == objs[i]
            s == o.original_number
        IN  (DigitString(s, 9) /\ s[1] \in {"5", "6", "7"})
            => /\ o.is_valid
               /\ o.number_type = Some("mobile")
               /\ o.carrier = Some(CASE s[1] = "5" -> "Ooredoo"
                                     [] s[1] = "6" -> "Mobilis"
                                     [] s[1] = "7" -> "Djezzy")

C4_Witness ==
    \E i \in DOMAIN objs :
        /\ DigitString(objs[i].original_number, 9)
        /\ objs[i].original_number[1] = "7"
        /\ objs[i].carrier = Some("Djezzy")

\* C5: the category is emergency (and the result valid) exactly when the
\* string left after the prefix stripping has 2, 3 or 4 digits and is as a
\* whole a key of the emergency table; "17" is a valid emergency number,
\* "170" and "123" are invalid.
C5_EmergencyExact ==
    \A i \in DOMAIN objs :
        LET o == objs[i]
            num == Stripped(o.clean_number)
        IN  /\ is_emergency(o)
               <=> (/\ Len(num) \in {2, 3, 4}
                    /\ AllDigits(num)
                    /\ num \in DOMAIN EMERGENCY_NUMBERS)
            /\ is_emergency(o) => o.is_valid
            /\ o.original_number = <<"1", "7">> => is_emergency(o) /\ o.is_valid
            /\ o.original_number = <<"1", "7", "0">> => ~o.is_valid
            /\ o.original_number = <<"1", "2", "3">> => ~o.is_valid

C5_Witness ==
    \E i \in DOMAIN objs :
        /\ objs[i].original_number = <<"0", "1", "2", "3", "4">>
        /\ is_emergency(objs[i])

\* C6: constructing the classification of any string completes without
\* raising, with is_valid true or false; a wrong length, an unknown area
\* code and an unassigned leading digit give an invalid result.
C6_Total ==
    \A i \in DOMAIN objs :
        LET o == objs[i]
            num == Stripped(o.clean_number)
            wrongLength ==
                /\ Len(num) \notin {8, 9}
                /\ ~(Len(num) \in {2, 3, 4} /\ num \in DOMAIN EMERGENCY_NUMBERS)
            unknownArea ==
                /\ Len(num) = 8
                /\ num[1] \in {"2", "3", "4"}
                /\ SubSeq(num, 1, 2) \notin DOMAIN LANDLINE_REGIONS
            unassignedLead ==
                \/ Len(num) = 9 /\ num[1] \notin {"5", "6", "7"}
                \/ Len(num) = 8 /\ num[1] \notin {"2", "3", "4", "9"}
        IN  /\ o.raised = None
            /\ o.is_valid \in BOOLEAN
            /\ (wrongLength \/ unknownArea \/ unassignedLead)
               => ~o.is_valid /\ o.number_type = None

C6_Witness ==
    \E i \in DOMAIN objs :
        /\ Len(objs[i].original_number) > 0
        /\ Len(objs[i].clean_number) = 0
        /\ objs[i].raised = None
        /\ ~objs[i].is_valid

\* C7: clean_number holds only decimal digits, whatever the input.
C7_CleanDigitsOnly ==
    \A i \in DOMAIN objs : AllDigits(objs[i].clean_number)

\* C8: is_valid is true exactly when the category is one of mobile,
\* landline, voip, vsat, emergency; exactly one predicate is true of a valid
\* result and none of an invalid one.
C8_ValidIffCategory ==
    \A i \in DOMAIN objs :
        LET o == objs[i]
            holding == {p \in {"mobile", "landline", "emergency", "voip", "vsat"} :
                          CASE p = "mobile" -> is_mobile(o)
                            [] p = "landline" -> is_landline(o)
                            [] p = "emergency" -> is_emergency(o)
                            [] p = "voip" -> is_voip(o)
                            [] p = "vsat" -> is_vsat(o)}
        IN  /\ o.is_valid <=> o.number_type # None
            /\ o.is_valid <=> \E t \in {"mobile", "landline", "voip", "vsat", "emergency"} :
                                  o.number_type = Some(t)
            /\ Cardinality(holding) = IF o.is_valid THEN 1 ELSE 0

C8_Witness ==
    \E i \in DOMAIN objs :
        /\ objs[i].is_valid
        /\ is_mobile(objs[i])
        /\ startswith(objs[i].original_number, <<"+", "2", "1", "3">>)

\* C9: carrier is set exactly when the category is mobile; area_code and
\* region are set exactly when the category is landline.
C9_OptionalFields ==
    \A i \in DOMAIN objs :
        LET o == objs[i]
        IN  /\ o.carrier # None <=> is_mobile(o)
            /\ o.area_code # None <=> is_landline(o)
            /\ o.location # None <=> is_landline(o)

C9_Witness ==
    \E i \in DOMAIN objs :
        /\ is_landline(objs[i])
        /\ objs[i].area_code = Some(<<"2", "7">>)
        /\ objs[i].location # None
        /\ objs[i].carrier = None

\* C10: no classification and no query changes the reference dataset or a
\* result returned before, and every result is the one a first call on the
\* same input gives.
C10_Stateless ==
    [][/\ dataset' = dataset
       /\ \A i \in DOMAIN objs : i \in DOMAIN objs' /\ objs'[i] = objs[i]
       /\ \A i \in DOMAIN objs' :
             objs'[i] = __init__(_Const, objs'[i].original_number)]_vars

C10_Witness ==
    /\ Len(objs) = 2
    /\ objs[1].original_number = objs[2].original_number
    /\ out # None
    /\ out[1].op = "__str__"
    /\ out[1].of = 1

====
